---- MODULE Spec2Model ----
(***************************************************************************)
(* A model of dog0752::dynobj (src/dynobject.hpp): the identifier          *)
(* interner, the shape registry with its weak transition cache, and the    *)
(* dynamic object with set / get / call, in both build modes               *)
(* (DYNOBJECT_MULTITHREADED defined or not).                               *)
(*                                                                         *)
(* Every API operation is a frame on its thread's call stack; one action   *)
(* is one step of the code between two points where another thread can     *)
(* observe or block it (a guard acquisition, a critical section).          *)
(***************************************************************************)
EXTENDS Integers, Sequences, FiniteSets, TLC

(* ------------------------------ bounds -------------------------------- *)

\* threads of the host that use the factory
NumThreads == 2
\* object slots the host may have alive at once
NumObjs == 2
\* identifiers used as property keys are 0..MaxKey
MaxKey == 1
\* identifiers passed to getString are 0..MaxId
MaxId == 3
\* API operations the host starts in one run of the single-threaded build
MaxOps == 3
\* API operations the host starts in one run of the multi-threaded build
MaxOpsMT == 2
\* call(inc) invocations of the benchmark loop (N of tests/bench.cpp)
MaxCalls == 3
\* sets and gets the threads start on one shared object
MaxSharedOps == 4
\* sets the host starts when it only creates, fills and drops objects
MaxSetOps == 4

Threads == 1..NumThreads
Objs == 1..NumObjs
Keys == 0..MaxKey
Ids == 0..MaxId
\* the strings the host interns; "<?>" is a string like any other
Strings == {"a", "b", "<?>"}

(* ----------------------------- constants ------------------------------ *)

\* nullptr for an object handle (prototype = nullptr)
Null == 0
\* no thread owns the guard
Free == 0
\* the root shape, ObjectFactory::root_shape_
Root == 0
\* a null shape pointer (the root's parent_, an expired weak_ptr's lock())
NoShape == -1
\* static_cast<size_t>(-1), the root's offset_
NoOffset == -1
\* str_to_id_.end(): the string is not in the map
NotInterned == -1

\* the identifiers the demonstration programs intern first
id_counter == 0
id_inc == 1

(* ------------------------------- cells -------------------------------- *)

\* std::any: a tag (the stored type) and a payload. v is a number for every
\* tag: the int itself, the index of a string, the index of a Method.
Cell(tag, v) == [tag |-> tag, v |-> v]
\* std::any{}: what resize() fills a new slot with
EmptyAny == Cell("empty", 0)
\* ghost only: "never written"
NoCell == Cell("none", 0)

\* the callables the host stores: inc of tests/bench.cpp, and relay, which
\* re-enters call on self: relay(self) { return self.call(id_inc) }
MethodNames == <<"inc", "relay">>
MethodIdx(name) == CHOOSE i \in 1..Len(MethodNames) : MethodNames[i] = name

\* the values the host passes to set
InputCells ==
    {Cell("int", 0), Cell("method", MethodIdx("inc")),
     Cell("method", MethodIdx("relay"))}

\* the typed views T of get<T> and R of call<R>
Views == {"any", "int", "method"}

\* std::expected<T, std::string>
Ok(c) == [ok |-> TRUE, err |-> "", val |-> c]
Err(e) == [ok |-> FALSE, err |-> e, val |-> EmptyAny]
NoSuchProperty == "no such property"
TypeMismatch == "type mismatch for property"
ReturnMismatch == "type mismatch for method return value"

VARIABLES
    mt,              \* TRUE iff built with DYNOBJECT_MULTITHREADED
    shapes,          \* shape id -> Shape (every shape ever allocated)
    nextShape,       \* the next fresh shape id
    alive,           \* object slot -> the host holds the object
    shape_,          \* DynObject::shape_
    values_,         \* DynObject::values_
    prototype,       \* DynObject::prototype
    mutex_,          \* DynObject::mutex_ : [w: owner or Free, r: readers]
    factory_mutex_,  \* ObjectFactory::factory_mutex_ : owner or Free
    intern_mutex_,   \* ObjectFactory::intern_mutex_ : owner or Free
    id_to_str_,      \* ObjectFactory::id_to_str_
    str_to_id_,      \* ObjectFactory::str_to_id_
    stack,           \* thread -> its call stack of frames, top first
    ret,             \* thread -> what the last returned frame returned
    nops,            \* API operations started so far
    written,         \* ghost: object -> key -> the last cell passed to set
    added,           \* ghost: object -> keys in the order they were added
    invoked,         \* ghost: how many times a user callable was entered
    firstSeen        \* ghost: the strings passed to intern, by first encounter

vars == <<mt, shapes, nextShape, alive, shape_, values_, prototype, mutex_,
          factory_mutex_, intern_mutex_, id_to_str_, str_to_id_, stack, ret,
          nops, written, added, invoked, firstSeen>>

heapVars == <<shapes, nextShape, shape_, values_>>
objVars == <<alive, prototype>>
internVars == <<id_to_str_, str_to_id_, intern_mutex_>>
ghostVars == <<written, added, firstSeen>>

(* ------------------------------ shapes -------------------------------- *)

\* Shape::Shape(): the root has no parent, the placeholder key 0 and the
\* sentinel offset
RootShape ==
    [parent_ |-> NoShape, property_key_ |-> 0, offset_ |-> NoOffset,
     transitions_ |-> <<>>]

\* Shape::getPropertyCount
getPropertyCount(s) ==
    IF shapes[s].offset_ = NoOffset THEN 0 ELSE shapes[s].offset_ + 1

\* Shape::getNewOffset
getNewOffset(s) == shapes[s].offset_

\* std::expected<size_t, std::monostate>
Found(off) == [has |-> TRUE, off |-> off]
NotFound == [has |-> FALSE, off |-> 0]

\* a faulty walk: only the shape itself is compared
getOffsetFromShallow(current, key) ==
    IF shapes[current].parent_ # NoShape
       /\ shapes[current].property_key_ = key
    THEN [has |-> TRUE, off |-> shapes[current].offset_]
    ELSE [has |-> FALSE, off |-> 0]

\* Shape::getOffset: walk the parent chain while the current shape has a
\* parent; the root is never compared
RECURSIVE getOffsetFrom(_, _)
getOffsetFrom(current, key) ==
    IF shapes[current].parent_ = NoShape
    THEN NotFound
    ELSE IF shapes[current].property_key_ = key
         THEN Found(shapes[current].offset_)
         ELSE getOffsetFrom(shapes[current].parent_, key)

\* a faulty lookup: the shape's own property is skipped
getOffsetParentOnly(s, key) ==
    IF shapes[s].parent_ = NoShape
    THEN NotFound
    ELSE getOffsetFrom(shapes[s].parent_, key)

getOffset(s, key) == getOffsetFrom(s, key)

\* the shapes a strong handle on s keeps alive: s and its ancestors
RECURSIVE Chain(_)
Chain(s) ==
    IF s = NoShape THEN {} ELSE {s} \cup Chain(shapes[s].parent_)

\* shapes with a strong owner: the factory's root_shape_, and every live
\* object's shape_ with its parent chain
LiveShapes ==
    {Root} \cup UNION {Chain(shape_[o]) : o \in {x \in Objs : alive[x]}}

\* std::weak_ptr<Shape>::lock()
WeakLock(s) == IF s \in LiveShapes THEN s ELSE NoShape

\* a faulty cache check: any cached child is taken, whatever its key
CacheLookupAnyKey(from, key) ==
    IF DOMAIN shapes[from].transitions_ # {}
    THEN WeakLock(shapes[from].transitions_[
             CHOOSE k \in DOMAIN shapes[from].transitions_ : TRUE])
    ELSE NoShape

\* ObjectFactory::transition, the cache check
CacheLookup(from, key) ==
    IF key \in DOMAIN shapes[from].transitions_
    THEN WeakLock(shapes[from].transitions_[key])
    ELSE NoShape

\* a faulty constructor: the child takes its parent's offset
ChildShapeAtParentOffset(parent, key) ==
    [parent_ |-> parent, property_key_ |-> key,
     offset_ |-> IF shapes[parent].offset_ = NoOffset
                 THEN 0 ELSE shapes[parent].offset_,
     transitions_ |-> <<>>]

\* Shape::Shape(parent, key)
ChildShape(parent, key) ==
    [parent_ |-> parent, property_key_ |-> key,
     offset_ |-> getPropertyCount(parent), transitions_ |-> <<>>]

\* ObjectFactory::transition, the miss: make_shared and publish the weak
\* handle in from->transitions_
ShapesAfterCreate(from, key, id) ==
    (id :> ChildShape(from, key)) @@
    [shapes EXCEPT ![from].transitions_ = (key :> id) @@ @]

(* ------------------------------ guards -------------------------------- *)

\* unique_lock_t<object_mutex_t>: std::unique_lock of a std::shared_mutex,
\* or DummyLock
CanLockExclusive(o) ==
    mt => (mutex_[o].w = Free /\ mutex_[o].r = {})

LockedExclusive(t, o) ==
    IF mt THEN [mutex_ EXCEPT ![o].w = t] ELSE mutex_

\* a faulty guard: a reader is let in while a writer owns the object
CanLockSharedUnguarded(o) == TRUE

\* shared_lock_t<object_mutex_t>
CanLockShared(o) == mt => mutex_[o].w = Free

LockedShared(t, o) ==
    IF mt THEN [mutex_ EXCEPT ![o].r = @ \cup {t}] ELSE mutex_

\* a faulty release: nothing is released
UnlockedNever(t, o) == mutex_

\* a faulty release: the shared ownership is kept
UnlockedWriterOnly(t, o) ==
    IF mt
    THEN [mutex_ EXCEPT ![o].w = IF @ = t THEN Free ELSE @]
    ELSE mutex_

\* the guard's destructor, or lock.unlock()
Unlocked(t, o) ==
    IF mt
    THEN [mutex_ EXCEPT ![o].w = IF @ = t THEN Free ELSE @,
                        ![o].r = @ \ {t}]
    ELSE mutex_

\* a faulty guard: the factory mutex excludes nobody
CanLockFactoryUnguarded(m) == TRUE

\* unique_lock_t<factory_mutex_t>
CanLockFactory(m) == mt => m = Free

(* --------------------------- frames, results --------------------------- *)

\* a frame with its local and its string argument given
FrameOf(op, pc, obj, key, cell, view, loc, str) ==
    [key |-> key, op |-> op, pc |-> pc, obj |-> obj, cell |-> cell,
     view |-> view, loc |-> loc, str |-> str, recv |-> obj]

Frame(op, pc, obj, key, cell, view) ==
    FrameOf(op, pc, obj, key, cell, view, 0, "")

Return(op, recv, key, view, res) ==
    [key |-> key, op |-> op, view |-> view, str |-> "", recv |-> recv,
     res |-> res]

NoRet == Return("none", Null, 0, "any", Ok(EmptyAny))

Idle(t) == stack[t] = <<>>
Top(t) == Head(stack[t])
InFrame(t, op, pc) == ~Idle(t) /\ Top(t).op = op /\ Top(t).pc = pc

\* the top frame moves to pc
Goto(t, pc) ==
    [stack EXCEPT ![t] = <<[Top(t) EXCEPT !.pc = pc]>> \o Tail(@)]

Popped(t) == [stack EXCEPT ![t] = Tail(@)]
Pushed(t, f) == [stack EXCEPT ![t] = <<f>> \o @]

\* the host may start an operation on thread t: without
\* DYNOBJECT_MULTITHREADED the host uses one thread only
CanStart(t) ==
    /\ Idle(t)
    /\ nops < (IF mt THEN MaxOpsMT ELSE MaxOps)
    /\ mt \/ t = 1
    /\ \A u \in Threads : u < t => ~Idle(u)

\* every object some frame of some thread refers to
Busy ==
    UNION {{stack[t][i].obj : i \in DOMAIN stack[t]} \cup
           {stack[t][i].recv : i \in DOMAIN stack[t]} : t \in Threads}

(* ------------------------------- Init --------------------------------- *)

\* the state after ObjectFactory::ObjectFactory() : the root shape only, an
\* empty interner, no object yet
InitFactory ==
    /\ shapes = (Root :> RootShape)
    /\ nextShape = 1
    /\ alive = [o \in Objs |-> FALSE]
    /\ shape_ = [o \in Objs |-> NoShape]
    /\ values_ = [o \in Objs |-> <<>>]
    /\ prototype = [o \in Objs |-> Null]
    /\ mutex_ = [o \in Objs |-> [w |-> Free, r |-> {}]]
    /\ factory_mutex_ = Free
    /\ intern_mutex_ = Free
    /\ id_to_str_ = <<>>
    /\ str_to_id_ = <<>>
    /\ stack = [t \in Threads |-> <<>>]
    /\ ret = [t \in Threads |-> NoRet]
    /\ nops = 0
    /\ written = [o \in Objs |-> [k \in Keys |-> NoCell]]
    /\ added = [o \in Objs |-> <<>>]
    /\ invoked = 0
    /\ firstSeen = <<>>

\* built with DYNOBJECT_MULTITHREADED
InitMT == mt = TRUE /\ InitFactory

\* built without: DummyMutex, DummyLock
InitST == mt = FALSE /\ InitFactory

\* either build
Init == InitMT \/ InitST

(* ------------------------- host: object handles ------------------------ *)

\* ObjectFactory::createObject: an empty object at the root shape
createObject(o) ==
    /\ ~alive[o]
    /\ \A x \in Objs : x < o => alive[x]
    /\ alive' = [alive EXCEPT ![o] = TRUE]
    /\ shape_' = [shape_ EXCEPT ![o] = Root]
    /\ values_' = [values_ EXCEPT ![o] = <<>>]
    /\ prototype' = [prototype EXCEPT ![o] = Null]
    /\ written' = [written EXCEPT ![o] = [k \in Keys |-> NoCell]]
    /\ added' = [added EXCEPT ![o] = <<>>]
    /\ UNCHANGED <<mt, shapes, nextShape, mutex_, factory_mutex_, internVars,
                   stack, ret, nops, invoked, firstSeen>>

\* the objects reached from o by prototype links, o included
RECURSIVE ProtoChain(_)
ProtoChain(o) ==
    IF o = Null THEN {} ELSE {o} \cup ProtoChain(prototype[o])

\* the host assigns DynObject::prototype (a public field, read by get with
\* no guard held); it keeps the links acyclic and assigns between operations
setPrototype(o, p) ==
    /\ alive[o] /\ alive[p]
    /\ \A t \in Threads : Idle(t)
    /\ prototype[o] # p
    /\ o \notin ProtoChain(p)
    /\ prototype' = [prototype EXCEPT ![o] = p]
    /\ UNCHANGED <<mt, heapVars, alive, mutex_, factory_mutex_, internVars,
                   stack, ret, nops, ghostVars, invoked>>

\* the host drops its unique_ptr / shared_ptr: ~DynObject releases shape_,
\* values_ and prototype. An object that is some prototype stays alive.
dropObject(o) ==
    /\ alive[o]
    /\ o \notin Busy
    /\ \A x \in Objs : prototype[x] # o
    /\ alive' = [alive EXCEPT ![o] = FALSE]
    /\ shape_' = [shape_ EXCEPT ![o] = NoShape]
    /\ values_' = [values_ EXCEPT ![o] = <<>>]
    /\ prototype' = [prototype EXCEPT ![o] = Null]
    /\ written' = [written EXCEPT ![o] = [k \in Keys |-> NoCell]]
    /\ added' = [added EXCEPT ![o] = <<>>]
    /\ UNCHANGED <<mt, shapes, nextShape, mutex_, factory_mutex_, internVars,
                   stack, ret, nops, invoked, firstSeen>>

(* ------------------------------- set ---------------------------------- *)

\* the host's callables terminate: relay calls id_inc, so relay is never
\* stored under id_inc
Terminating(k, c) == c = Cell("method", MethodIdx("relay")) => k # id_inc

\* the host calls o.set(factory, k, c) on thread t
StartSet(t, o, k, c) ==
    /\ CanStart(t)
    /\ alive[o]
    /\ Terminating(k, c)
    /\ stack' = Pushed(t, Frame("set", "lock", o, k, c, "any"))
    /\ ret' = [ret EXCEPT ![t] = NoRet]
    /\ nops' = nops + 1
    /\ UNCHANGED <<mt, heapVars, objVars, mutex_, factory_mutex_, internVars,
                   ghostVars, invoked>>

\* unique_lock_t<object_mutex_t> lock(mutex_)
SetLock(t) ==
    /\ InFrame(t, "set", "lock")
    /\ CanLockExclusive(Top(t).obj)
    /\ mutex_' = LockedExclusive(t, Top(t).obj)
    /\ stack' = Goto(t, "body")
    /\ UNCHANGED <<mt, heapVars, objVars, factory_mutex_, internVars, ret,
                   nops, ghostVars, invoked>>

\* a faulty overwrite: the value is appended instead of stored in its slot
StoredAppended(o, off, c) == [values_ EXCEPT ![o] = Append(@, c)]

\* values_[offset] = value
Stored(o, off, c) == [values_ EXCEPT ![o][off + 1] = c]

\* a faulty resize: one slot too many
ResizedOver(vals, n) ==
    [i \in 1..(n + 1) |-> IF i <= Len(vals) THEN vals[i] ELSE EmptyAny]

\* values_.resize(n): new slots hold std::any{}
Resized(vals, n) ==
    [i \in 1..n |-> IF i <= Len(vals) THEN vals[i] ELSE EmptyAny]

\* a faulty transition: the array is resized and the new slot left empty
InstalledValuesUnwritten(sh, o, new_shape, c) ==
    LET count == IF sh[new_shape].offset_ = NoOffset
                 THEN 0 ELSE sh[new_shape].offset_ + 1
    IN [values_ EXCEPT ![o] = Resized(@, count)]

\* a faulty transition: the value is written through to the prototype's cell
\* too when the prototype has the key
InstalledValuesThrough(sh, o, new_shape, c) ==
    LET count == IF sh[new_shape].offset_ = NoOffset
                 THEN 0 ELSE sh[new_shape].offset_ + 1
        p == prototype[o]
        inherited == IF p = Null THEN NotFound
                     ELSE getOffset(shape_[p], sh[new_shape].property_key_)
        own == [values_ EXCEPT
                  ![o] = [Resized(@, count)
                            EXCEPT ![sh[new_shape].offset_ + 1] = c]]
    IN IF inherited.has
       THEN [own EXCEPT ![p][inherited.off + 1] = c]
       ELSE own

\* shape_ = new_shape; values_.resize(count); values_[offset] = value,
\* with the shape table sh the transition left
InstalledValues(sh, o, new_shape, c) ==
    LET count == IF sh[new_shape].offset_ = NoOffset
                 THEN 0 ELSE sh[new_shape].offset_ + 1
    IN [values_ EXCEPT
          ![o] = [Resized(@, count) EXCEPT ![sh[new_shape].offset_ + 1] = c]]

\* getOffset under the exclusive guard; present: overwrite and return
SetBody(t) ==
    /\ InFrame(t, "set", "body")
    /\ LET f == Top(t)
           o == f.obj
           maybe_offset == getOffset(shape_[o], f.key)
       IN IF maybe_offset.has
          THEN /\ values_' = Stored(o, maybe_offset.off, f.cell)
               /\ written' = [written EXCEPT ![o][f.key] = f.cell]
               /\ mutex_' = Unlocked(t, o)
               /\ stack' = Popped(t)
               /\ ret' = [ret EXCEPT
                            ![t] = Return("set", o, f.key, "overwrite",
                                          Ok(EmptyAny))]
               /\ UNCHANGED <<shapes, nextShape, shape_, added, firstSeen>>
          ELSE /\ stack' = Goto(t, "factory")
               /\ UNCHANGED <<heapVars, mutex_, ret, ghostVars>>
    /\ UNCHANGED <<mt, objVars, factory_mutex_, internVars, nops, invoked>>

\* unique_lock_t<factory_mutex_t> factory_lock(factory.factory_mutex_)
SetFactory(t) ==
    /\ InFrame(t, "set", "factory")
    /\ CanLockFactory(factory_mutex_)
    /\ factory_mutex_' = IF mt THEN t ELSE factory_mutex_
    /\ stack' = Goto(t, "transition")
    /\ UNCHANGED <<mt, heapVars, objVars, mutex_, internVars, ret, nops,
                   ghostVars, invoked>>

\* shape_ = new_shape: the object is at its new shape, values_ still has the
\* old length
SetInstalled(t, o, k, new_shape) ==
    /\ shape_' = [shape_ EXCEPT ![o] = new_shape]
    /\ added' = [added EXCEPT ![o] = Append(@, k)]
    /\ stack' = Goto(t, "resize")
    /\ UNCHANGED <<values_, mutex_, factory_mutex_, ret, written, firstSeen>>

\* a faulty return: the factory guard is kept
SetDoneKeepsFactory(t, o, k, c) ==
    /\ written' = [written EXCEPT ![o][k] = c]
    /\ UNCHANGED <<added, firstSeen>>
    /\ factory_mutex_' = factory_mutex_
    /\ mutex_' = Unlocked(t, o)
    /\ stack' = Popped(t)
    /\ ret' = [ret EXCEPT
                 ![t] = Return("set", o, k, "transition", Ok(EmptyAny))]

\* the end of set's else branch: both guards are released, set returns
SetDone(t, o, k, c) ==
    /\ written' = [written EXCEPT ![o][k] = c]
    /\ UNCHANGED <<added, firstSeen>>
    /\ factory_mutex_' = IF mt THEN Free ELSE factory_mutex_
    /\ mutex_' = Unlocked(t, o)
    /\ stack' = Popped(t)
    /\ ret' = [ret EXCEPT
                 ![t] = Return("set", o, k, "transition", Ok(EmptyAny))]

\* factory.transition(shape_, key), the cache check; on a hit
\* shape_ = new_shape
SetTransition(t) ==
    /\ InFrame(t, "set", "transition")
    /\ LET f == Top(t)
           o == f.obj
           next_shape == CacheLookup(shape_[o], f.key)
       IN IF next_shape # NoShape
          THEN /\ SetInstalled(t, o, f.key, next_shape)
               /\ UNCHANGED <<shapes, nextShape>>
          ELSE /\ stack' = Goto(t, "create")
               /\ UNCHANGED <<heapVars, mutex_, factory_mutex_, ret,
                              ghostVars>>
    /\ UNCHANGED <<mt, objVars, internVars, nops, invoked>>

\* factory.transition, the miss: a new shape is made and published;
\* shape_ = new_shape
SetCreate(t) ==
    /\ InFrame(t, "set", "create")
    /\ LET f == Top(t)
           o == f.obj
           new_shape == nextShape
       IN /\ shapes' = ShapesAfterCreate(shape_[o], f.key, new_shape)
          /\ nextShape' = nextShape + 1
          /\ SetInstalled(t, o, f.key, new_shape)
    /\ UNCHANGED <<mt, objVars, internVars, nops, invoked>>

\* values_.resize(new_shape->getPropertyCount());
\* values_[new_shape->getNewOffset()] = value; and the guards' destructors
SetResize(t) ==
    /\ InFrame(t, "set", "resize")
    /\ LET f == Top(t)
           o == f.obj
       IN /\ values_' = InstalledValues(shapes, o, shape_[o], f.cell)
          /\ SetDone(t, o, f.key, f.cell)
    /\ UNCHANGED <<mt, shapes, nextShape, shape_, objVars, internVars, nops,
                   invoked>>

(* ------------------------------- get ---------------------------------- *)

\* the host calls o.get<T>(k) on thread t
StartGet(t, o, k, T) ==
    /\ CanStart(t)
    /\ alive[o]
    /\ stack' = Pushed(t, Frame("get", "lock", o, k, EmptyAny, T))
    /\ ret' = [ret EXCEPT ![t] = NoRet]
    /\ nops' = nops + 1
    /\ UNCHANGED <<mt, heapVars, objVars, mutex_, factory_mutex_, internVars,
                   ghostVars, invoked>>

\* shared_lock_t<object_mutex_t> lock(mutex_)
GetLock(t) ==
    /\ InFrame(t, "get", "lock")
    /\ CanLockShared(Top(t).obj)
    /\ mutex_' = LockedShared(t, Top(t).obj)
    /\ stack' = Goto(t, "body")
    /\ UNCHANGED <<mt, heapVars, objVars, factory_mutex_, internVars, ret,
                   nops, ghostVars, invoked>>

\* a faulty typed view: the cell is returned whatever its tag
TypedViewUnchecked(c, T) == Ok(c)

\* the typed view of a cell: std::any as it is, else std::any_cast<T>
TypedView(c, T) ==
    IF T = "any" THEN Ok(c)
    ELSE IF c.tag = T THEN Ok(c) ELSE Err(TypeMismatch)

\* a faulty lookup: an own cell of another type counts as not found, so that
\* get goes on to the prototype
OwnLookupLenient(o, key, T) ==
    LET maybe_offset == getOffset(shape_[o], key)
    IN IF maybe_offset.has
          /\ TypedView(values_[o][maybe_offset.off + 1], T).ok
       THEN [found |-> TRUE,
             res |-> TypedView(values_[o][maybe_offset.off + 1], T)]
       ELSE [found |-> FALSE, res |-> Err(NoSuchProperty)]

\* get on the object's own shape: the typed read of the cell at the offset
\* of key when the shape chain has key, whatever the cell's tag
OwnLookup(o, key, T) ==
    LET maybe_offset == getOffset(shape_[o], key)
    IN IF maybe_offset.has
       THEN [found |-> TRUE,
             res |-> TypedView(values_[o][maybe_offset.off + 1], T)]
       ELSE [found |-> FALSE, res |-> Err(NoSuchProperty)]

\* DynObject::get run with no other thread in between: own shape first, then
\* the prototype, recursively
RECURSIVE get(_, _, _)
get(o, key, T) ==
    LET own == OwnLookup(o, key, T)
    IN IF own.found THEN own.res
       ELSE IF prototype[o] # Null THEN get(prototype[o], key, T)
       ELSE Err(NoSuchProperty)

\* another thread is inside set on o between shape_ = new_shape and the end
\* of the resize: shape_ and values_ are being written
Torn(t, o) ==
    \E u \in Threads \ {t} : InFrame(u, "set", "resize") /\ Top(u).obj = o

\* what a read of shape_ and values_ that races with that write may give
\* (a data race is undefined behaviour): any cell, empty or not, or no
\* property at all
TornReads(T) ==
    {Err(NoSuchProperty)} \cup
    {TypedView(c, T) : c \in InputCells \cup {EmptyAny}}

\* getOffset under the shared guard; found: the typed read is returned;
\* not found: lock.unlock() before the prototype is looked at
GetBody(t) ==
    /\ InFrame(t, "get", "body")
    /\ LET f == Top(t)
           own == OwnLookup(f.obj, f.key, f.view)
       IN IF Torn(t, f.obj)
          THEN /\ stack' = Popped(t)
               /\ \E r \in TornReads(f.view) :
                    ret' = [ret EXCEPT
                              ![t] = Return("get", f.recv, f.key, f.view, r)]
          ELSE IF own.found
          THEN /\ stack' = Popped(t)
               /\ ret' = [ret EXCEPT
                            ![t] = Return("get", f.recv, f.key, f.view,
                                          own.res)]
          ELSE /\ stack' = Goto(t, "proto")
               /\ UNCHANGED ret
    /\ mutex_' = Unlocked(t, Top(t).obj)
    /\ UNCHANGED <<mt, heapVars, objVars, factory_mutex_, internVars, nops,
                   ghostVars, invoked>>

\* if (prototype) return prototype->get<T>(key); else "no such property"
GetProto(t) ==
    /\ InFrame(t, "get", "proto")
    /\ LET f == Top(t)
       IN IF prototype[f.obj] # Null
          THEN /\ stack' = [stack EXCEPT
                              ![t] = <<[f EXCEPT !.obj = prototype[f.obj],
                                                 !.pc = "lock"]>> \o Tail(@)]
               /\ UNCHANGED ret
          ELSE /\ stack' = Popped(t)
               /\ ret' = [ret EXCEPT
                            ![t] = Return("get", f.recv, f.key, f.view,
                                          Err(NoSuchProperty))]
    /\ UNCHANGED <<mt, heapVars, objVars, mutex_, factory_mutex_, internVars,
                   nops, ghostVars, invoked>>

(* ------------------------------- call --------------------------------- *)

\* the host calls o.call<R>(k) on thread t
StartCall(t, o, k, R) ==
    /\ CanStart(t)
    /\ alive[o]
    /\ stack' = Pushed(t, Frame("call", "resolve", o, k, EmptyAny, R))
    /\ ret' = [ret EXCEPT ![t] = NoRet]
    /\ nops' = nops + 1
    /\ UNCHANGED <<mt, heapVars, objVars, mutex_, factory_mutex_, internVars,
                   ghostVars, invoked>>

\* auto maybe_method = this->get<Method>(name)
CallResolve(t) ==
    /\ InFrame(t, "call", "resolve")
    /\ stack' = [stack EXCEPT
                   ![t] = <<Frame("get", "lock", Top(t).obj, Top(t).key,
                                  EmptyAny, "method"),
                            [Top(t) EXCEPT !.pc = "got"]>> \o Tail(@)]
    /\ ret' = [ret EXCEPT ![t] = NoRet]
    /\ UNCHANGED <<mt, heapVars, objVars, mutex_, factory_mutex_, internVars,
                   nops, ghostVars, invoked>>

\* the first object from o along the prototype links whose shape has key
RECURSIVE Holder(_, _)
Holder(o, key) ==
    IF o = Null THEN Null
    ELSE IF getOffset(shape_[o], key).has THEN o
    ELSE Holder(prototype[o], key)

\* a faulty binding: self is the object that stores the callable
SelfOfHolder(recv, key) ==
    IF Holder(recv, key) = Null THEN recv ELSE Holder(recv, key)

\* the self a callable found under key is invoked with: *this of call
Self(recv, key) == recv

\* no callable: the error of get is returned; else method_to_call(*this, args)
CallGot(t) ==
    /\ InFrame(t, "call", "got")
    /\ LET f == Top(t)
           maybe_method == ret[t].res
       IN IF ~maybe_method.ok
          THEN /\ stack' = Popped(t)
               /\ ret' = [ret EXCEPT
                            ![t] = Return("call", f.obj, f.key, f.view,
                                          Err(maybe_method.err))]
               /\ UNCHANGED invoked
          ELSE /\ stack' = [stack EXCEPT
                              ![t] = <<Frame("method", "enter",
                                             Self(f.obj, f.key), f.key,
                                             maybe_method.val, "any"),
                                       [f EXCEPT !.pc = "ret"]>> \o Tail(@)]
               /\ ret' = [ret EXCEPT ![t] = NoRet]
               /\ invoked' = invoked + 1
    /\ UNCHANGED <<mt, heapVars, objVars, mutex_, factory_mutex_, internVars,
                   nops, ghostVars>>

\* a faulty typed return: the result is passed through whatever its tag
ReturnViewUnchecked(c, R) == Ok(c)

\* the typed view of the callable's std::any result
ReturnView(c, R) ==
    IF R = "any" THEN Ok(c)
    ELSE IF c.tag = R THEN Ok(c) ELSE Err(ReturnMismatch)

\* the callable returned: return result, or its R, or the mismatch error
CallRet(t) ==
    /\ InFrame(t, "call", "ret")
    /\ LET f == Top(t)
       IN /\ stack' = Popped(t)
          /\ ret' = [ret EXCEPT
                       ![t] = Return("call", f.obj, f.key, f.view,
                                     ReturnView(ret[t].res.val, f.view))]
    /\ UNCHANGED <<mt, heapVars, objVars, mutex_, factory_mutex_, internVars,
                   nops, ghostVars, invoked>>

(* ---------------------------- the callables ---------------------------- *)

InMethod(t, name, pc) ==
    /\ InFrame(t, "method", pc)
    /\ Top(t).cell = Cell("method", MethodIdx(name))

\* inc: auto val = self.get<int>(id_counter)
IncGet(t) ==
    /\ InMethod(t, "inc", "enter")
    /\ stack' = [stack EXCEPT
                   ![t] = <<Frame("get", "lock", Top(t).obj, id_counter,
                                  EmptyAny, "int"),
                            [Top(t) EXCEPT !.pc = "read"]>> \o Tail(@)]
    /\ UNCHANGED <<mt, heapVars, objVars, mutex_, factory_mutex_, internVars,
                   ret, nops, ghostVars, invoked>>

\* inc: .value_or(0); val++; self.set(factory, id_counter, val)
IncSet(t) ==
    /\ InMethod(t, "inc", "read")
    /\ LET val == (IF ret[t].res.ok THEN ret[t].res.val.v ELSE 0) + 1
       IN stack' = [stack EXCEPT
                      ![t] = <<Frame("set", "lock", Top(t).obj, id_counter,
                                     Cell("int", val), "any"),
                               [Top(t) EXCEPT !.pc = "wrote", !.loc = val]>>
                             \o Tail(@)]
    /\ ret' = [ret EXCEPT ![t] = NoRet]
    /\ UNCHANGED <<mt, heapVars, objVars, mutex_, factory_mutex_, internVars,
                   nops, ghostVars, invoked>>

\* inc: return val
IncReturn(t) ==
    /\ InMethod(t, "inc", "wrote")
    /\ stack' = Popped(t)
    /\ ret' = [ret EXCEPT
                 ![t] = Return("method", Top(t).obj, Top(t).key, "any",
                               Ok(Cell("int", Top(t).loc)))]
    /\ UNCHANGED <<mt, heapVars, objVars, mutex_, factory_mutex_, internVars,
                   nops, ghostVars, invoked>>

\* relay: auto r = self.call(id_inc)
RelayCall(t) ==
    /\ InMethod(t, "relay", "enter")
    /\ stack' = [stack EXCEPT
                   ![t] = <<Frame("call", "resolve", Top(t).obj, id_inc,
                                  EmptyAny, "any"),
                            [Top(t) EXCEPT !.pc = "called"]>> \o Tail(@)]
    /\ UNCHANGED <<mt, heapVars, objVars, mutex_, factory_mutex_, internVars,
                   ret, nops, ghostVars, invoked>>

\* relay: return r.has_value() ? *r : std::any{}
RelayReturn(t) ==
    /\ InMethod(t, "relay", "called")
    /\ stack' = Popped(t)
    /\ ret' = [ret EXCEPT
                 ![t] = Return("method", Top(t).obj, Top(t).key, "any",
                               Ok(ret[t].res.val))]
    /\ UNCHANGED <<mt, heapVars, objVars, mutex_, factory_mutex_, internVars,
                   nops, ghostVars, invoked>>

(* ------------------------------- Next --------------------------------- *)

Next ==
    \/ \E o \in Objs : createObject(o)
    \/ \E o \in Objs, p \in Objs : setPrototype(o, p)
    \/ \E o \in Objs : dropObject(o)
    \/ \E t \in Threads, o \in Objs, k \in Keys, c \in InputCells :
         StartSet(t, o, k, c)
    \/ \E t \in Threads, o \in Objs, k \in Keys, T \in Views :
         StartGet(t, o, k, T)
    \/ \E t \in Threads, o \in Objs, k \in Keys, R \in Views :
         StartCall(t, o, k, R)
    \/ \E t \in Threads : SetLock(t)
    \/ \E t \in Threads : SetBody(t)
    \/ \E t \in Threads : SetFactory(t)
    \/ \E t \in Threads : SetTransition(t)
    \/ \E t \in Threads : SetCreate(t)
    \/ \E t \in Threads : SetResize(t)
    \/ \E t \in Threads : GetLock(t)
    \/ \E t \in Threads : GetBody(t)
    \/ \E t \in Threads : GetProto(t)
    \/ \E t \in Threads : CallResolve(t)
    \/ \E t \in Threads : CallGot(t)
    \/ \E t \in Threads : CallRet(t)
    \/ \E t \in Threads : IncGet(t)
    \/ \E t \in Threads : IncSet(t)
    \/ \E t \in Threads : IncReturn(t)
    \/ \E t \in Threads : RelayCall(t)
    \/ \E t \in Threads : RelayReturn(t)

\* either build
Spec == Init /\ [][Next]_vars

\* the multi-threaded build
SpecMT == InitMT /\ [][Next]_vars

\* the single-threaded build
SpecST == InitST /\ [][Next]_vars

(* ----------------------------- the interner ---------------------------- *)

\* the host calls factory.intern(s) on thread t
StartIntern(t, s) ==
    /\ CanStart(t)
    /\ stack' = Pushed(t, FrameOf("intern", "lock", Null, 0, EmptyAny, "any",
                                  0, s))
    /\ ret' = [ret EXCEPT ![t] = NoRet]
    /\ nops' = nops + 1
    /\ UNCHANGED <<mt, heapVars, objVars, mutex_, factory_mutex_, internVars,
                   ghostVars, invoked>>

\* unique_lock_t<factory_mutex_t> lock(intern_mutex_), in intern and getString
InternLock(t) ==
    /\ ~Idle(t) /\ Top(t).op \in {"intern", "getString"} /\ Top(t).pc = "lock"
    /\ CanLockFactory(intern_mutex_)
    /\ intern_mutex_' = IF mt THEN t ELSE intern_mutex_
    /\ stack' = Goto(t, "body")
    /\ UNCHANGED <<mt, heapVars, objVars, mutex_, factory_mutex_, id_to_str_,
                   str_to_id_, ret, nops, ghostVars, invoked>>

\* a faulty lookup: no string is ever found in the map
internFindNever(s) == NotInterned

\* str_to_id_.find(str): the identifier of a known string, or end()
internFind(s) ==
    IF s \in DOMAIN str_to_id_ THEN str_to_id_[s] ELSE NotInterned

\* what intern returns, to the host
InternReturn(t, s, id) ==
    /\ firstSeen' = IF \E i \in DOMAIN firstSeen : firstSeen[i] = s
                    THEN firstSeen ELSE Append(firstSeen, s)
    /\ ret' = [ret EXCEPT
                 ![t] = [Return("intern", Null, id, "any", Ok(EmptyAny))
                           EXCEPT !.str = s]]
    /\ intern_mutex_' = IF mt THEN Free ELSE intern_mutex_
    /\ stack' = Popped(t)

\* if (auto it = str_to_id_.find(str); it != str_to_id_.end())
\*     return it->second;
InternFind(t) ==
    /\ InFrame(t, "intern", "body")
    /\ LET it == internFind(Top(t).str)
       IN IF it # NotInterned
          THEN /\ InternReturn(t, Top(t).str, it)
               /\ UNCHANGED <<id_to_str_, str_to_id_>>
          ELSE /\ stack' = Goto(t, "emplace")
               /\ UNCHANGED <<internVars, ret, firstSeen>>
    /\ UNCHANGED <<mt, heapVars, objVars, mutex_, factory_mutex_, nops,
                   written, added, invoked>>

\* Identifier id = id_to_str_.size(); id_to_str_.emplace_back(str);
\* str_to_id_.emplace(id_to_str_.back(), id); return id;
\* (emplace leaves the entry of a key the map already has)
InternEmplace(t) ==
    /\ InFrame(t, "intern", "emplace")
    /\ LET s == Top(t).str
           id == Len(id_to_str_)
       IN /\ id_to_str_' = Append(id_to_str_, s)
          /\ str_to_id_' = str_to_id_ @@ (s :> id)
          /\ InternReturn(t, s, id)
    /\ UNCHANGED <<mt, heapVars, objVars, mutex_, factory_mutex_, nops,
                   written, added, invoked>>

\* the host calls factory.getString(id) on thread t
StartGetString(t, id) ==
    /\ CanStart(t)
    /\ stack' = Pushed(t, Frame("getString", "lock", Null, id, EmptyAny, "any"))
    /\ ret' = [ret EXCEPT ![t] = NoRet]
    /\ nops' = nops + 1
    /\ UNCHANGED <<mt, heapVars, objVars, mutex_, factory_mutex_, internVars,
                   ghostVars, invoked>>

\* if (id < id_to_str_.size()) return id_to_str_[id]; return "<?>"
getString(id) ==
    IF id < Len(id_to_str_) THEN id_to_str_[id + 1] ELSE "<?>"

GetStringBody(t) ==
    /\ InFrame(t, "getString", "body")
    /\ ret' = [ret EXCEPT
                 ![t] = [Return("getString", Null, Top(t).key, "any",
                                Ok(EmptyAny))
                           EXCEPT !.str = getString(Top(t).key)]]
    /\ intern_mutex_' = IF mt THEN Free ELSE intern_mutex_
    /\ stack' = Popped(t)
    /\ UNCHANGED <<mt, heapVars, objVars, mutex_, factory_mutex_, id_to_str_,
                   str_to_id_, nops, ghostVars, invoked>>

\* any step of an operation thread t has started
ThreadStep(t) ==
    \/ SetLock(t) \/ SetBody(t) \/ SetFactory(t) \/ SetTransition(t)
    \/ SetCreate(t) \/ SetResize(t)
    \/ GetLock(t) \/ GetBody(t) \/ GetProto(t)
    \/ CallResolve(t) \/ CallGot(t) \/ CallRet(t)
    \/ IncGet(t) \/ IncSet(t) \/ IncReturn(t)
    \/ RelayCall(t) \/ RelayReturn(t)

\* the multi-threaded build on a scheduler that lets every thread that can
\* take a step take one eventually
SpecMTFair ==
    InitMT /\ [][Next]_vars /\ \A t \in Threads : WF_vars(ThreadStep(t))

\* the interner alone
NextIntern ==
    \/ \E t \in Threads, s \in Strings : StartIntern(t, s)
    \/ \E t \in Threads, id \in Ids : StartGetString(t, id)
    \/ \E t \in Threads : InternLock(t)
    \/ \E t \in Threads : InternFind(t)
    \/ \E t \in Threads : InternEmplace(t)
    \/ \E t \in Threads : GetStringBody(t)

\* the interner of either build
SpecIntern == Init /\ [][NextIntern]_vars

(* ------------- objects and interner together, multi-threaded ----------- *)

\* every operation of the factory and its objects
NextAll == Next \/ NextIntern

\* any step of an intern or getString thread t has started
InternStep(t) ==
    InternLock(t) \/ InternFind(t) \/ InternEmplace(t) \/ GetStringBody(t)

\* the multi-threaded build, objects and interner used side by side
SpecAll == InitMT /\ [][NextAll]_vars

\* the same on a scheduler that lets every thread that can take a step take
\* one eventually
SpecAllFair ==
    /\ InitMT /\ [][NextAll]_vars
    /\ \A t \in Threads : WF_vars(ThreadStep(t) \/ InternStep(t))

(* ------------------- the benchmark, tests/bench.cpp -------------------- *)

\* the benchmark's object: the first one the factory creates
BenchObj == 1

\* the benchmark runs on one thread
BenchThread == 1

\* the benchmark's API calls: set counter, set inc, N calls, and the gets of
\* the main thread (the final get of counter, or one in between)
BenchOps == MaxCalls + 3

\* counter and inc are both on the object: the state the loop starts in
BenchReady ==
    /\ alive[BenchObj]
    /\ written[BenchObj][id_counter] # NoCell
    /\ written[BenchObj][id_inc] # NoCell

\* the main thread enters an API call
BenchStart(f) ==
    /\ Idle(BenchThread)
    /\ alive[BenchObj]
    /\ nops < BenchOps
    /\ stack' = Pushed(BenchThread, f)
    /\ ret' = [ret EXCEPT ![BenchThread] = NoRet]
    /\ nops' = nops + 1
    /\ UNCHANGED <<mt, heapVars, objVars, mutex_, factory_mutex_, internVars,
                   ghostVars, invoked>>

\* obj->set(factory, k, c), once per key
BenchSet(k, c) ==
    /\ written[BenchObj][k] = NoCell
    /\ BenchStart(Frame("set", "lock", BenchObj, k, c, "any"))

\* obj->set(factory, id_counter, int(0))
BenchSetCounter == BenchSet(id_counter, Cell("int", 0))

\* obj->set(factory, id_inc, Method(...))
BenchSetInc == BenchSet(id_inc, Cell("method", MethodIdx("inc")))

\* obj->call<int>(id_inc) in the loop; R is int, or the default std::any
BenchCall(R) ==
    /\ BenchReady
    /\ invoked < MaxCalls
    /\ BenchStart(Frame("call", "resolve", BenchObj, id_inc, EmptyAny, R))

\* obj->get<T>(k) on the main thread
BenchGet(k, T) ==
    BenchStart(Frame("get", "lock", BenchObj, k, EmptyAny, T))

NextBench ==
    \/ createObject(BenchObj)
    \/ BenchSetCounter
    \/ BenchSetInc
    \/ \E R \in {"int", "any"} : BenchCall(R)
    \/ \E k \in Keys, T \in Views : BenchGet(k, T)
    \/ SetLock(BenchThread)
    \/ SetBody(BenchThread)
    \/ SetFactory(BenchThread)
    \/ SetTransition(BenchThread)
    \/ SetCreate(BenchThread)
    \/ SetResize(BenchThread)
    \/ GetLock(BenchThread)
    \/ GetBody(BenchThread)
    \/ GetProto(BenchThread)
    \/ CallResolve(BenchThread)
    \/ CallGot(BenchThread)
    \/ CallRet(BenchThread)
    \/ IncGet(BenchThread)
    \/ IncSet(BenchThread)
    \/ IncReturn(BenchThread)

\* the benchmark in either build
SpecBench == Init /\ [][NextBench]_vars

(* ---------------- objects created, filled and dropped ------------------ *)

\* the host calls o.set(factory, k, 0) on thread t
FillSet(t, o, k) ==
    /\ Idle(t)
    /\ mt \/ t = 1
    /\ \A u \in Threads : u < t => ~Idle(u)
    /\ alive[o]
    /\ nops < MaxSetOps
    /\ stack' = Pushed(t, Frame("set", "lock", o, k, Cell("int", 0), "any"))
    /\ ret' = [ret EXCEPT ![t] = NoRet]
    /\ nops' = nops + 1
    /\ UNCHANGED <<mt, heapVars, objVars, mutex_, factory_mutex_, internVars,
                   ghostVars, invoked>>

NextFill ==
    \/ \E o \in Objs : createObject(o)
    \/ \E o \in Objs : dropObject(o)
    \/ \E t \in Threads, o \in Objs, k \in Keys : FillSet(t, o, k)
    \/ \E t \in Threads : SetLock(t)
    \/ \E t \in Threads : SetBody(t)
    \/ \E t \in Threads : SetFactory(t)
    \/ \E t \in Threads : SetTransition(t)
    \/ \E t \in Threads : SetCreate(t)
    \/ \E t \in Threads : SetResize(t)

\* objects created, filled by set and dropped, in either build
SpecFill == Init /\ [][NextFill]_vars

(* ------------- threads sharing one object, multi-threaded -------------- *)

\* the shared object: the first one the factory creates
SharedObj == 1

\* the frames of thread t that work on the shared object's identifier k
Using(t, k) ==
    {i \in DOMAIN stack[t] :
        stack[t][i].obj = SharedObj /\ stack[t][i].key = k}

\* thread t enters set or get on the shared object
SharedStart(t, f) ==
    /\ Idle(t)
    /\ \A u \in Threads : u < t => ~Idle(u)
    /\ alive[SharedObj]
    /\ nops < MaxSharedOps
    /\ stack' = Pushed(t, f)
    /\ ret' = [ret EXCEPT ![t] = NoRet]
    /\ nops' = nops + 1
    /\ UNCHANGED <<mt, heapVars, objVars, mutex_, factory_mutex_, internVars,
                   ghostVars, invoked>>

\* thread t calls set(k, v) while no other thread is using k; every set
\* writes a value of its own
SharedSet(t, k) ==
    /\ \A u \in Threads \ {t} : Using(u, k) = {}
    /\ SharedStart(t, Frame("set", "lock", SharedObj, k,
                            Cell("int", nops + 1), "any"))

\* thread t calls get<T>(k) while no other thread is setting k; loc records
\* whether k was on the object when the get started
SharedGet(t, k, T) ==
    /\ \A u \in Threads \ {t} :
         \A i \in Using(u, k) : stack[u][i].op # "set"
    /\ SharedStart(t, [Frame("get", "lock", SharedObj, k, EmptyAny, T)
                         EXCEPT !.loc =
                           IF written[SharedObj][k] # NoCell THEN 1 ELSE 0])

NextShared ==
    \/ createObject(SharedObj)
    \/ \E t \in Threads, k \in Keys : SharedSet(t, k)
    \/ \E t \in Threads, k \in Keys, T \in {"any", "int"} : SharedGet(t, k, T)
    \/ \E t \in Threads : SetLock(t)
    \/ \E t \in Threads : SetBody(t)
    \/ \E t \in Threads : SetFactory(t)
    \/ \E t \in Threads : SetTransition(t)
    \/ \E t \in Threads : SetCreate(t)
    \/ \E t \in Threads : SetResize(t)
    \/ \E t \in Threads : GetLock(t)
    \/ \E t \in Threads : GetBody(t)
    \/ \E t \in Threads : GetProto(t)

\* threads on one shared object, built with DYNOBJECT_MULTITHREADED
SpecShared == InitMT /\ [][NextShared]_vars

(* ======================================================================= *)
(*                              the claims                                 *)
(* ======================================================================= *)

LiveObjs == {o \in Objs : alive[o]}

\* C1: two live objects of the factory to which the same identifiers were
\* added by set in the same order, starting from the empty object, have the
\* same shape instance -- in either build, under every interleaving.
C1_SameAdditionsSameShape ==
    \A o1 \in LiveObjs, o2 \in LiveObjs :
        added[o1] = added[o2] => shape_[o1] = shape_[o2]

\* two threads each completed a transitioning set, on two objects, with the
\* same key: the second was started while the first was running
C1_Witness ==
    /\ mt
    /\ ret[1].op = "set" /\ ret[1].view = "transition"
    /\ ret[2].op = "set" /\ ret[2].view = "transition"
    /\ ret[1].recv # ret[2].recv
    /\ alive[ret[1].recv] /\ alive[ret[2].recv]
    /\ added[ret[1].recv] = added[ret[2].recv]
    /\ added[ret[1].recv] # <<>>

\* what the claims expect of a typed read of cell c
ViewOf(c, T) ==
    IF T = "any" \/ c.tag = T THEN Ok(c) ELSE Err(TypeMismatch)

\* what the claims expect of get<T>(k) on o, from the values the host passed
\* to set: own properties first, then the prototype chain
RECURSIVE Expected(_, _, _)
Expected(o, k, T) ==
    IF written[o][k] # NoCell THEN ViewOf(written[o][k], T)
    ELSE IF prototype[o] # Null THEN Expected(prototype[o], k, T)
    ELSE Err(NoSuchProperty)

\* thread t takes a step in this transition
Steps(t) == stack'[t] # stack[t]

\* thread t's top frame returns in this transition
Returns(t, op) ==
    /\ ~Idle(t) /\ Top(t).op = op
    /\ Len(stack'[t]) < Len(stack[t])

\* C2: after any sequence of sets on an object, get(k) of every identifier
\* that was set succeeds and returns the value of the most recent set(k), as
\* the untyped cell and as the typed view of its own type; so a set of one
\* identifier leaves what is read for every other identifier.
C2_GetReturnsLastSet ==
    \A o \in LiveObjs, k \in Keys :
        written[o][k] # NoCell =>
            /\ get(o, k, "any") = Ok(written[o][k])
            /\ get(o, k, written[o][k].tag) = Ok(written[o][k])

\* an object with two properties, one of them just overwritten
C2_Witness ==
    \E t \in Threads :
        /\ ret[t].op = "set" /\ ret[t].view = "overwrite"
        /\ alive[ret[t].recv]
        /\ Len(added[ret[t].recv]) = 2
        /\ get(ret[t].recv, ret[t].key, "any")
             = Ok(written[ret[t].recv][ret[t].key])

\* C3: every step of set(k, v) on an object that has k as an own property
\* leaves the shape table, every object's shape and the length of every value
\* array, and changes no slot but values[offset(k)] of the receiver, which
\* holds v when set returns; the thread does not own the factory guard.
C3_OverwriteFrame ==
    [][\A t \in Threads :
         (/\ ~Idle(t) /\ Top(t).op = "set" /\ Steps(t)
          /\ written[Top(t).obj][Top(t).key] # NoCell)
         => LET o == Top(t).obj
                slot == getOffset(shape_[o], Top(t).key).off + 1
            IN /\ shapes' = shapes /\ nextShape' = nextShape
               /\ shape_' = shape_
               /\ \A x \in Objs : Len(values_'[x]) = Len(values_[x])
               /\ \A x \in Objs : \A i \in 1..Len(values_[x]) :
                    (x # o \/ i # slot) => values_'[x][i] = values_[x][i]
               /\ Idle(t)' \/ Len(stack'[t]) < Len(stack[t])
                    => values_'[o][slot] = Top(t).cell
               /\ factory_mutex_' = factory_mutex_
               /\ mt => factory_mutex_ # t]_vars

\* a set that found its identifier present has returned
C3_Witness ==
    \E t \in Threads :
        /\ ret[t].op = "set" /\ ret[t].view = "overwrite"
        /\ written[ret[t].recv][ret[t].key] # NoCell

\* C4: get<T>(k) returns what the object's own cell decides when k is an own
\* property (its value, or type-mismatch when the tag is not T) and never
\* moves on to the prototype then; otherwise it returns what get<T>(k) of the
\* prototype returns, recursively.
C4_OwnBeforePrototype ==
    [][\A t \in Threads :
         Returns(t, "get")
         => /\ ret'[t].res = Expected(Top(t).recv, Top(t).key, Top(t).view)
            /\ written[Top(t).recv][Top(t).key] # NoCell
                 => Top(t).obj = Top(t).recv]_vars

\* get<T> returned type-mismatch for an own cell although the prototype holds
\* a T-typed value under the same identifier
C4_Witness ==
    \E t \in Threads :
        /\ ret[t].op = "get"
        /\ ret[t].res = Err(TypeMismatch)
        /\ alive[ret[t].recv]
        /\ prototype[ret[t].recv] # Null
        /\ written[ret[t].recv][ret[t].key] # NoCell
        /\ written[prototype[ret[t].recv]][ret[t].key].tag = ret[t].view

\* C5: no step of set on an object changes the shape or the values of another
\* object; a set(k, v) that returns on a receiver that had k only through its
\* prototype chain leaves k an own property of the receiver, get(k) of the
\* receiver is v, and get(k) of every object of the prototype chain is what
\* it was.
C5_SetLeavesPrototype ==
    [][\A t \in Threads :
         (~Idle(t) /\ Top(t).op = "set" /\ Steps(t))
         => \A o \in {Top(t).obj}, k \in {Top(t).key}, v \in {Top(t).cell} :
               /\ \A x \in Objs \ {o} :
                    shape_'[x] = shape_[x] /\ values_'[x] = values_[x]
               /\ (/\ Returns(t, "set")
                   /\ written[o][k] = NoCell
                   /\ prototype[o] # Null
                   /\ Expected(prototype[o], k, "any").ok)
                  => /\ getOffset(shape_[o], k)'.has
                     /\ get(o, k, "any")' = Ok(v)
                     /\ \A x \in ProtoChain(prototype[o]) :
                          get(x, k, "any")' = get(x, k, "any")]_vars

\* the receiver got an own property that its prototype has too, with another
\* value
C5_Witness ==
    \E t \in Threads :
        /\ ret[t].op = "set" /\ ret[t].view = "transition"
        /\ alive[ret[t].recv]
        /\ prototype[ret[t].recv] # Null
        /\ written[prototype[ret[t].recv]][ret[t].key] # NoCell
        /\ get(ret[t].recv, ret[t].key, "any")
             # get(prototype[ret[t].recv], ret[t].key, "any")

\* C6: after any interleaving of intern calls the identifiers are 0..n-1 in
\* the order the n distinct strings were first met, both tables agree with
\* it, and every identifier a call returned still stands for the string that
\* call was given: equal strings got equal identifiers, distinct strings
\* distinct ones.
C6_InternDense ==
    /\ id_to_str_ = firstSeen
    /\ \A i \in DOMAIN firstSeen, j \in DOMAIN firstSeen :
         firstSeen[i] = firstSeen[j] => i = j
    /\ DOMAIN str_to_id_ = {firstSeen[i] : i \in DOMAIN firstSeen}
    /\ \A i \in DOMAIN firstSeen : str_to_id_[firstSeen[i]] = i - 1
    /\ \A t \in Threads :
         ret[t].op = "intern"
         => /\ ret[t].key < Len(id_to_str_)
            /\ id_to_str_[ret[t].key + 1] = ret[t].str
    /\ \A t \in Threads, u \in Threads :
         (ret[t].op = "intern" /\ ret[u].op = "intern")
         => (ret[t].str = ret[u].str <=> ret[t].key = ret[u].key)

\* a string was interned again after another string and got identifier 0 again
C6_Witness ==
    \E t \in Threads :
        /\ ret[t].op = "intern" /\ ret[t].key = 0
        /\ Len(id_to_str_) = 2
        /\ nops = 3

\* C7: lookup of an identifier below the number of interned strings returns
\* the string that first got it; lookup of any other identifier returns a
\* result that no lookup of an interned identifier returns.
C7_UnknownDistinguished ==
    \A id \in Ids :
        IF id < Len(id_to_str_)
        THEN getString(id) = firstSeen[id + 1]
        ELSE \A j \in 0..(Len(id_to_str_) - 1) : getString(id) # getString(j)

\* the nearest object of o's prototype chain to which k was set
RECURSIVE Nearest(_, _)
Nearest(o, k) ==
    IF o = Null THEN Null
    ELSE IF written[o][k] # NoCell THEN o
    ELSE Nearest(prototype[o], k)

\* C8: get<T>(k) returns no-such-property exactly when k was set on no object
\* of the receiver's prototype chain, the receiver included (so for every
\* identifier, 0 too, on a fresh object), and type-mismatch exactly when the
\* nearest object to which k was set holds a cell whose tag is not T; no step
\* of a get changes an object, a shape or the interner.
C8_GetErrors ==
    [][\A t \in Threads :
         (~Idle(t) /\ Top(t).op = "get" /\ Steps(t))
         => /\ UNCHANGED <<heapVars, objVars, internVars, written, added>>
            /\ Returns(t, "get")
                 => LET recv == Top(t).recv
                        k == Top(t).key
                        T == Top(t).view
                        n == Nearest(recv, k)
                    IN /\ ret'[t].res = Err(NoSuchProperty) <=> n = Null
                       /\ ret'[t].res = Err(TypeMismatch)
                            <=> (/\ n # Null /\ T # "any"
                                 /\ written[n][k].tag # T)
                       /\ ~ret'[t].res.ok
                            => ret'[t].res.err
                                 \in {NoSuchProperty, TypeMismatch}]_vars

\* identifier 0, the root shape's placeholder key, was looked up on a fresh
\* object and not found
C8_Witness ==
    \E t \in Threads :
        /\ ret[t].op = "get" /\ ret[t].key = 0
        /\ ret[t].res = Err(NoSuchProperty)
        /\ alive[ret[t].recv]
        /\ shape_[ret[t].recv] = Root
        /\ shapes[Root].property_key_ = 0

\* C9: no step of call itself, nor of the get that resolves the callable,
\* changes an object; when k resolves to no callable the call returns get's
\* error (no-such-property, or type-mismatch for a cell that is no callable)
\* and no callable is entered; when it resolves, one callable is entered, and
\* a result whose tag is not the requested R comes back as the error value
\* method-return-type-mismatch.
C9_CallErrors ==
    [][\A t \in Threads :
         (~Idle(t) /\ Top(t).op \in {"call", "get"} /\ Steps(t))
         => /\ UNCHANGED <<heapVars, objVars, written, added>>
            /\ Top(t).op = "get" => invoked' = invoked
            /\ (Top(t).op = "call" /\ Top(t).pc = "got")
                 => LET want == Expected(Top(t).obj, Top(t).key, "method")
                    IN IF want.ok
                       THEN /\ invoked' = invoked + 1
                            /\ ~Returns(t, "call")
                            /\ Head(stack'[t]).op = "method"
                            /\ Head(stack'[t]).cell = want.val
                       ELSE /\ invoked' = invoked
                            /\ Returns(t, "call")
                            /\ ret'[t].res = want
            /\ (Top(t).op = "call" /\ Top(t).pc = "ret")
                 => /\ invoked' = invoked
                    /\ Returns(t, "call")
                    /\ ret'[t].res =
                         IF Top(t).view = "any"
                            \/ ret[t].res.val.tag = Top(t).view
                         THEN Ok(ret[t].res.val)
                         ELSE Err(ReturnMismatch)]_vars

\* a callable ran and its result did not have the requested type
C9_Witness ==
    \E t \in Threads :
        /\ ret[t].op = "call"
        /\ ret[t].res = Err(ReturnMismatch)
        /\ invoked > 0

\* the object guards thread t owns, shared or exclusive
HeldObjs(t) == {o \in Objs : mutex_[o].w = t \/ t \in mutex_[o].r}

\* thread t owns no guard at all
HoldsNothing(t) ==
    HeldObjs(t) = {} /\ factory_mutex_ # t /\ intern_mutex_ # t

\* a user callable is on thread t's stack
InCallable(t) == \E i \in DOMAIN stack[t] : stack[t][i].op = "method"

\* C10: in the multi-threaded build a thread owns no object guard and no
\* factory guard while call's own code or the user's callable is what it
\* runs, and whenever it is about to acquire an object guard (the get, set or
\* call the callable re-entered on self); the only object guard it ever owns
\* is that of the operation on top of its stack.
C10_HoldsOnlyTop ==
    \A t \in Threads :
        /\ Idle(t) => HoldsNothing(t)
        /\ ~Idle(t)
             => /\ Top(t).op \in {"call", "method"} => HoldsNothing(t)
                /\ Top(t).pc = "lock" => HoldsNothing(t)
                /\ HeldObjs(t) \subseteq {Top(t).obj}

C10_NoGuardInCallable ==
    /\ []C10_HoldsOnlyTop
    /\ \A t \in Threads : InCallable(t) ~> ~InCallable(t)

\* inside inc, called on the object, the re-entered set owns the object's
\* exclusive guard, and the factory guard for its transition
C10_Witness ==
    \E t \in Threads :
        /\ mt
        /\ Len(stack[t]) = 3
        /\ Top(t).op = "set" /\ Top(t).pc = "transition"
        /\ stack[t][2].op = "method" /\ stack[t][3].op = "call"
        /\ stack[t][2].obj = Top(t).obj
        /\ mutex_[Top(t).obj].w = t
        /\ factory_mutex_ = t

\* C11: on an object with counter = 0 and the method inc, after n calls of
\* inc in sequence on one thread (n up to MaxCalls; inc's counter is a C++
\* int, so n stays below its range) every call has succeeded, the i-th call
\* returned i, get(counter) is n, and no step taken once counter and inc are
\* on the object changes the object's shape or allocates a shape.
C11_State ==
    BenchReady =>
        /\ ret[BenchThread].op = "call"
             => ret[BenchThread].res = Ok(Cell("int", invoked))
        /\ Idle(BenchThread)
             => /\ get(BenchObj, id_counter, "int") = Ok(Cell("int", invoked))
                /\ get(BenchObj, id_counter, "any") = Ok(Cell("int", invoked))
        /\ (Idle(BenchThread) /\ ret[BenchThread].op = "get"
            /\ ret[BenchThread].key = id_counter
            /\ ret[BenchThread].view # "method")
             => ret[BenchThread].res = Ok(Cell("int", invoked))

C11_IncCounts ==
    /\ []C11_State
    /\ [][BenchReady => (shape_' = shape_ /\ shapes' = shapes)]_vars

\* the third call of inc has returned 3
C11_Witness ==
    /\ BenchReady
    /\ invoked = 3
    /\ ret[BenchThread].op = "call"
    /\ ret[BenchThread].res = Ok(Cell("int", 3))
    /\ Len(values_[BenchObj]) = 2

\* C12: in the multi-threaded build, with threads setting and getting
\* disjoint identifiers of one object at the same time: a set(k, v) that
\* returns leaves get(k) = v; no step of a set of k changes what get reads
\* for another identifier that was written; and a get(k) that started when
\* k was on the object returns k's written value, never no-such-property,
\* also when another thread's set changed the shape and resized the value
\* array in between.
C12_NoLostWrite ==
    [][\A t \in Threads :
         (~Idle(t) /\ Steps(t))
         => \A k \in {Top(t).key}, v \in {Top(t).cell}, f \in {Top(t)} :
              /\ Returns(t, "set")
                   => /\ get(SharedObj, k, "any")' = Ok(v)
                      /\ get(SharedObj, k, "int")' = Ok(v)
              /\ f.op = "set"
                   => \A j \in Keys \ {k} :
                        written[SharedObj][j] # NoCell
                        => /\ written'[SharedObj][j] = written[SharedObj][j]
                           /\ get(SharedObj, j, "any")'
                                = Ok(written[SharedObj][j])
              /\ (Returns(t, "get") /\ f.loc = 1)
                   => /\ ret'[t].res # Err(NoSuchProperty)
                      /\ ret'[t].res = Ok(written[SharedObj][k])]_vars

\* a get of an identifier that is on the object waits for the guard while
\* another thread's set of another identifier is between the shape change
\* and the resize
C12_Witness ==
    \E t \in Threads, u \in Threads :
        /\ InFrame(t, "get", "lock") /\ Top(t).loc = 1
        /\ InFrame(u, "set", "resize")
        /\ Top(u).obj = Top(t).obj /\ Top(u).key # Top(t).key
        /\ mutex_[Top(u).obj].w = u
        /\ Len(values_[Top(u).obj]) < getPropertyCount(shape_[Top(u).obj])

\* the identifiers that have been set on the shared object
SharedKeys == {k \in Keys : written[SharedObj][k] # NoCell}

\* C13: in the multi-threaded build, once every set that threads started at
\* the same time on one object, each of an identifier of its own, has
\* returned: the shape's property_count is the number of identifiers set,
\* the value array has that length, and get of each identifier returns the
\* value written for it.
C13_AllSetsLand ==
    (alive[SharedObj] /\ \A t \in Threads : Idle(t))
    => /\ getPropertyCount(shape_[SharedObj]) = Cardinality(SharedKeys)
       /\ Len(values_[SharedObj]) = Cardinality(SharedKeys)
       /\ Len(added[SharedObj]) = Cardinality(SharedKeys)
       /\ \A k \in SharedKeys :
            /\ get(SharedObj, k, "any") = Ok(written[SharedObj][k])
            /\ getOffset(shape_[SharedObj], k).has

\* two threads each added an identifier of their own to the fresh object,
\* the second starting while the first was inside its set
C13_Witness ==
    /\ nops = 2
    /\ \A t \in Threads : Idle(t)
    /\ ret[1].op = "set" /\ ret[1].view = "transition"
    /\ ret[2].op = "set" /\ ret[2].view = "transition"
    /\ ret[1].key # ret[2].key
    /\ getPropertyCount(shape_[SharedObj]) = 2
    /\ written[SharedObj][ret[1].key] # written[SharedObj][ret[2].key]

\* C14: two live objects of the factory to which different sequences of
\* identifiers were added (the same identifiers in another order, or one
\* sequence a strict prefix of the other, or any other difference) never
\* have the same shape instance.
C14_DifferentAdditionsDifferentShape ==
    \A o1 \in LiveObjs, o2 \in LiveObjs :
        added[o1] # added[o2] => shape_[o1] # shape_[o2]

\* two live objects hold the same two identifiers, added in opposite orders
C14_Witness ==
    \E o1 \in LiveObjs, o2 \in LiveObjs :
        /\ Len(added[o1]) = 2 /\ Len(added[o2]) = 2
        /\ added[o1][1] = added[o2][2] /\ added[o1][2] = added[o2][1]
        /\ added[o1][1] # added[o1][2]
        /\ shape_[o1] # shape_[o2]
        /\ \A t \in Threads : Idle(t)

\* every shape the factory has allocated, the root excepted
AllShapes == DOMAIN shapes \ {Root}

\* the keys from the root to shape s, in insertion order
RECURSIVE Path(_)
Path(s) ==
    IF shapes[s].parent_ = NoShape THEN <<>>
    ELSE Append(Path(shapes[s].parent_), shapes[s].property_key_)

\* the offsets from the root to shape s, in insertion order
RECURSIVE Offsets(_)
Offsets(s) ==
    IF shapes[s].parent_ = NoShape THEN <<>>
    ELSE Append(Offsets(shapes[s].parent_), shapes[s].offset_)

\* C15: for every shape the factory ever allocated by createObject, set and
\* object drops, a shape made again after the cached weak handle expired
\* included: the keys from the root to the shape are pairwise distinct, the
\* offsets are 0, 1, ..., n-1 in insertion order, each offset is the
\* parent's property_count; so two shapes reached by the same additions have
\* the same properties at the same offsets.
C15_ShapeWellFormed ==
    /\ \A s \in AllShapes :
         /\ \A i \in DOMAIN Path(s), j \in DOMAIN Path(s) :
              Path(s)[i] = Path(s)[j] => i = j
         /\ Offsets(s) = [i \in 1..Len(Path(s)) |-> i - 1]
         /\ shapes[s].offset_ = getPropertyCount(shapes[s].parent_)
         /\ \A i \in DOMAIN Path(s) :
              getOffset(s, Path(s)[i]) = Found(i - 1)
    /\ \A s1 \in AllShapes, s2 \in AllShapes :
         Path(s1) = Path(s2)
         => /\ getPropertyCount(s1) = getPropertyCount(s2)
            /\ \A k \in Keys : getOffset(s1, k) = getOffset(s2, k)

\* a live object is at a shape with two properties that was made again: the
\* shape first made for the same additions has expired with its object
C15_Witness ==
    \E o \in LiveObjs, d \in AllShapes :
        /\ Len(Path(shape_[o])) = 2
        /\ d # shape_[o]
        /\ Path(d) = Path(shape_[o])
        /\ d \notin LiveShapes

\* thread t owns a factory-level guard
HoldsFactory(t) == factory_mutex_ = t \/ intern_mutex_ = t

\* C16: in the multi-threaded build, a thread that acquires factory_mutex_
\* owns exactly one object guard, the exclusive guard of the object its set
\* is transitioning, and not intern_mutex_; a thread that acquires
\* intern_mutex_ (intern, getString) owns no guard at all; a thread that
\* acquires an object guard owns no factory-level guard and no other object
\* guard (get has released the child's before it takes the prototype's);
\* so no thread ever owns the guards of two objects.
C16_LockOrder ==
    [][\A t \in Threads :
         /\ (factory_mutex_' = t /\ factory_mutex_ # t)
              => /\ Top(t).op = "set"
                 /\ HeldObjs(t) = {Top(t).obj}
                 /\ mutex_[Top(t).obj].w = t
                 /\ intern_mutex_ # t
         /\ (intern_mutex_' = t /\ intern_mutex_ # t)
              => HeldObjs(t) = {} /\ factory_mutex_ # t
         /\ HeldObjs(t)' \ HeldObjs(t) # {}
              => HeldObjs(t) = {} /\ ~HoldsFactory(t)
         /\ Cardinality(HeldObjs(t)') <= 1]_vars

\* a get that did not find its identifier on the receiver owns the shared
\* guard of the prototype, and of no other object, while another thread owns
\* the receiver's exclusive guard and the factory guard
C16_Witness ==
    \E t \in Threads, u \in Threads :
        /\ InFrame(t, "get", "body")
        /\ Top(t).obj # Top(t).recv
        /\ HeldObjs(t) = {Top(t).obj}
        /\ InFrame(u, "set", "transition")
        /\ Top(u).obj = Top(t).recv
        /\ HeldObjs(u) = {Top(t).recv}
        /\ factory_mutex_ = u

\* thread t is inside set on o, in the scope of set's guard of o (a
\* std::unique_lock, or the DummyLock of the single-threaded build)
InSetScope(t, o) ==
    \E i \in DOMAIN stack[t] :
        /\ stack[t][i].op = "set" /\ stack[t][i].obj = o
        /\ stack[t][i].pc # "lock"

\* C17 at a state: an object whose exclusive guard no thread owns has a
\* value array as long as its shape's property_count
C17_Quiescent ==
    \A o \in LiveObjs :
        /\ (\A t \in Threads : ~InSetScope(t, o))
             => Len(values_[o]) = getPropertyCount(shape_[o])
        /\ (mt /\ mutex_[o].w = Free)
             => Len(values_[o]) = getPropertyCount(shape_[o])

\* C17: the length of an object's value array is its shape's property_count
\* whenever no thread is inside the object's exclusive guard; the shape
\* change of a set of a new identifier leaves the values and the offset of
\* every property the object had and raises property_count by one; the
\* resize that follows grows the array by one slot, writes the value at the
\* new shape's offset, which is the former length, and leaves every slot
\* there was.
C17_LengthIsCount ==
    /\ []C17_Quiescent
    /\ [][\A t \in Threads :
            (~Idle(t) /\ Top(t).op = "set" /\ Steps(t))
            => \A o \in {Top(t).obj}, v \in {Top(t).cell} :
                 /\ shape_'[o] # shape_[o]
                      => /\ values_' = values_
                         /\ getPropertyCount(shape_[o])'
                              = getPropertyCount(shape_[o]) + 1
                         /\ \A k \in Keys :
                              getOffset(shape_[o], k).has
                              => getOffset(shape_[o], k)'
                                   = getOffset(shape_[o], k)
                 /\ Top(t).pc = "resize"
                      => /\ shape_' = shape_
                         /\ getNewOffset(shape_[o]) = Len(values_[o])
                         /\ Len(values_'[o]) = Len(values_[o]) + 1
                         /\ values_'[o][Len(values_[o]) + 1] = v
                         /\ \A i \in 1..Len(values_[o]) :
                              values_'[o][i] = values_[o][i]
                         /\ Len(values_'[o]) = getPropertyCount(shape_[o])
           ]_vars

\* a set owns the exclusive guard of an object that is at its new shape of
\* two properties while the value array still has one slot
C17_Witness ==
    \E t \in Threads :
        /\ mt
        /\ InFrame(t, "set", "resize")
        /\ mutex_[Top(t).obj].w = t
        /\ getPropertyCount(shape_[Top(t).obj]) = 2
        /\ Len(values_[Top(t).obj]) = 1

\* the objects a get that started on recv and is now at obj has visited
Visited(recv, obj) == ProtoChain(recv) \ ProtoChain(prototype[obj])

\* some thread that is inside an operation can take a step
C18_NoDeadlock ==
    (\E t \in Threads : ~Idle(t))
    => \E u \in Threads : ENABLED (ThreadStep(u) \/ InternStep(u))

\* C18: in the multi-threaded build, with acyclic prototype links and
\* callables that return, under a scheduler that lets every thread that can
\* step do so eventually: no state in which a thread is inside an operation
\* is a deadlock, every started get, set, call, intern and getString
\* returns, and a get moves only to an object of the receiver's prototype
\* chain that it has not visited.
C18_Completes ==
    /\ []C18_NoDeadlock
    /\ \A t \in Threads : ~Idle(t) ~> Idle(t)
    /\ [][\A t \in Threads :
            (~Idle(t) /\ Top(t).op = "get" /\ ~Idle(t)'
             /\ Len(stack'[t]) = Len(stack[t])
             /\ Head(stack'[t]).obj # Top(t).obj)
            => /\ Head(stack'[t]).obj \in ProtoChain(Top(t).recv)
               /\ Head(stack'[t]).obj \notin Visited(Top(t).recv, Top(t).obj)
           ]_vars

\* two threads race shape transitions on two objects: one waits for the
\* factory guard that the other owns
C18_Witness ==
    \E t \in Threads, u \in Threads :
        /\ InFrame(t, "set", "factory")
        /\ InFrame(u, "set", "create")
        /\ Top(t).obj # Top(u).obj
        /\ factory_mutex_ = u
        /\ ~ENABLED SetFactory(t)

\* thread t is in the critical section of intern or getString
InInternSection(t) ==
    /\ ~Idle(t) /\ Top(t).op \in {"intern", "getString"}
    /\ Top(t).pc \in {"body", "emplace"}

\* thread t is in the critical section of a shape-transitioning set
InTransitionSection(t) ==
    /\ ~Idle(t) /\ Top(t).op = "set"
    /\ Top(t).pc \in {"transition", "create", "resize"}

\* C19: in the multi-threaded build no thread is in the critical section of
\* intern or getString while another thread is in the critical section of a
\* shape-transitioning set of the same factory.
C19_SingleFactoryGuard ==
    mt => \A t \in Threads, u \in Threads :
             ~(InInternSection(t) /\ InTransitionSection(u))

\* the object the operation thread t's host started was called on
Receiver(t) == stack[t][Len(stack[t])].obj

\* C20: when call(k) starts the callable, self is the object call was made
\* on, also when the callable is stored on an object further along the
\* prototype chain; no step a thread takes while a callable is running on it
\* changes the shape or the values of any object but that receiver; and a
\* set(j, v) on self inside the callable returns with j an own property of
\* the receiver that reads v.
C20_SelfIsReceiver ==
    [][\A t \in Threads :
         (~Idle(t) /\ Steps(t))
         => \A r \in {Receiver(t)}, f \in {Top(t)} :
              /\ (f.op = "call" /\ f.pc = "got" /\ ~Returns(t, "call"))
                   => /\ Head(stack'[t]).op = "method"
                      /\ Head(stack'[t]).obj = f.obj
              /\ InCallable(t)
                   => /\ \A x \in Objs \ {r} :
                           shape_'[x] = shape_[x] /\ values_'[x] = values_[x]
                      /\ f.op = "set" => f.obj = r
                      /\ Returns(t, "set")
                           => /\ getOffset(shape_[r], f.key)'.has
                              /\ get(r, f.key, "any")' = Ok(f.cell)]_vars

\* call of inc on an object that has inc only through its prototype has
\* returned: the receiver got its own counter, the prototype has none
C20_Witness ==
    \E t \in Threads :
        /\ ret[t].op = "call" /\ ret[t].res.ok
        /\ alive[ret[t].recv]
        /\ prototype[ret[t].recv] # Null
        /\ written[ret[t].recv][ret[t].key] = NoCell
        /\ written[prototype[ret[t].recv]][ret[t].key]
             = Cell("method", MethodIdx("inc"))
        /\ written[ret[t].recv][id_counter] = Cell("int", 1)
        /\ written[prototype[ret[t].recv]][id_counter] = NoCell
        /\ Len(values_[prototype[ret[t].recv]]) = 1

====
